---- MODULE Spec2Model ----
(***************************************************************************)
(* Model of scripts/download_mods.py: main() reconciles the mods directory *)
(* with manifest.json.  File names and response bodies are sequences of    *)
(* one-character strings so that lower(), endswith(), strip(),             *)
(* startswith() and the f-string formatting are computed, not assumed.     *)
(* An optional JSON member is <<>> (absent / None) or <<v>> (present).     *)
(* The file system is case-sensitive and nothing but main() touches it;    *)
(* a subdirectory of data/mods behaves as a file whose os.remove fails.    *)
(***************************************************************************)
EXTENDS Integers, Sequences, FiniteSets, TLC

VARIABLES
    pc,                \* position of main(): a label per statement group
    run,               \* number of the current invocation of the script
    manifestFile,      \* what scripts/manifest.json holds on disk
    manifest,          \* the parsed manifest (line 23), <<>> before parsing
    dirExists,         \* whether data/mods exists
    dir,               \* data/mods: file name -> content (sequence of chunks)
    mods_keys,         \* mods_in_manifest: keys in insertion order
    mods_in_manifest,  \* mods_in_manifest: key -> <<project_id, file_id>>
    idx,               \* position of the loop of line 36
    current_mod_files, \* line 52, the part of the snapshot not yet visited
    fidx,              \* position of the loop of line 65
    response,          \* response of line 76: <<>> or <<[status, text]>>
    download_url,      \* line 82
    cidx,              \* position of the loop of line 91
    out,               \* kinds of message printed by this invocation
    reqs,              \* every HTTP request issued, in order
    h                  \* history: what happened to which file (not program state)

vars == <<pc, run, manifestFile, manifest, dirExists, dir, mods_keys,
          mods_in_manifest, idx, current_mod_files, fidx, response,
          download_url, cidx, out, reqs, h>>

-----------------------------------------------------------------------------
(* Bounds *)

MaxEntries == 2      \* longest "files" list of the synchronisation runs
MaxBuildEntries == 2 \* longest "files" list of the mapping-only runs
MaxRuns == 2         \* invocations of the script in a row

-----------------------------------------------------------------------------
(* Strings *)

\* str.lower(), on the alphabet of the model's file names
LowerChar(c) ==
    CASE c = "A" -> "a"
      [] c = "B" -> "b"
      [] c = "J" -> "j"
      [] c = "R" -> "r"
      [] OTHER -> c

Lower(s) == [i \in 1..Len(s) |-> LowerChar(s[i])]

EndsWith(s, suf) ==
    /\ Len(s) >= Len(suf)
    /\ SubSeq(s, Len(s) - Len(suf) + 1, Len(s)) = suf

StartsWith(s, pre) ==
    /\ Len(s) >= Len(pre)
    /\ SubSeq(s, 1, Len(pre)) = pre

Whitespace == {" ", "\n"}

RECURSIVE LStrip(_)
LStrip(s) ==
    IF s # <<>> /\ Head(s) \in Whitespace THEN LStrip(Tail(s)) ELSE s

RECURSIVE RStrip(_)
RStrip(s) ==
    IF s # <<>> /\ s[Len(s)] \in Whitespace
    THEN RStrip(SubSeq(s, 1, Len(s) - 1))
    ELSE s

\* str.strip()
Strip(s) == RStrip(LStrip(s))

Digit(d) == <<"0", "1", "2", "3", "4", "5", "6", "7", "8", "9">>[d + 1]

\* str(n) of a non-negative int
RECURSIVE IntToStr(_)
IntToStr(n) ==
    IF n < 10 THEN <<Digit(n)>>
    ELSE IntToStr(n \div 10) \o <<Digit(n % 10)>>

\* "{v}" of an f-string, v an optional int
FmtId(v) == IF v = <<>> THEN <<"N", "o", "n", "e">> ELSE IntToStr(v[1])

JarExt == <<".", "j", "a", "r">>
HttpPrefix == <<"h", "t", "t", "p">>

\* f"{project_id}-{file_id}.jar"
DefaultFileName(project_id, file_id) ==
    FmtId(project_id) \o <<"-">> \o FmtId(file_id) \o JarExt

\* the listing without its filter
IsJar_AnyName(f) == TRUE

\* f.lower().endswith(".jar")
IsJar(f) == EndsWith(Lower(f), JarExt)

\* download_url.startswith("http"), download_url = response.text.strip()
IsUrl(text) == StartsWith(Strip(text), HttpPrefix)

-----------------------------------------------------------------------------
(* Python truthiness and `or` on optional values *)

TruthyInt(v) == v # <<>> /\ v[1] # 0
TruthyStr(v) == v # <<>> /\ v[1] # <<>>

OrInt(a, b) == IF TruthyInt(a) THEN a ELSE b
OrStr(a, b) == IF TruthyStr(a) THEN a ELSE b

ProjectIdOf(mod) == OrInt(mod.projectID, mod.projectId)
FileIdOf(mod) == OrInt(mod.fileID, mod.fileId)
FileNameOf(mod) ==
    OrStr(mod.fileName, <<DefaultFileName(ProjectIdOf(mod), FileIdOf(mod))>>)[1]

\* the test of line 43
IsSkipped(mod) == ~TruthyInt(ProjectIdOf(mod)) \/ ~TruthyInt(FileIdOf(mod))

-----------------------------------------------------------------------------
(* Inputs *)

NameUpperJar == <<"B", ".", "J", "A", "R">>
NameTxt == <<"n", ".", "t", "x", "t">>
NameA == <<"a", ".", "j", "a", "r">>
Name12x4 == <<"1", "2", "-", "4", ".", "j", "a", "r">>

OldContent == <<"old">>

\* the body of the streamed download, as iter_content yields it
RemoteChunks == <<"x", "", "y">>

\* bodies of the download-url endpoint
BodyPadded == <<" ", "h", "t", "t", "p", ":", "\n">>
BodyBad == <<"h", "t", "t">>
Bodies == {BodyPadded, BodyBad}

Statuses == {200, 404}

Entry(pID, pId, fID, fId, name) ==
    [projectID |-> pID, projectId |-> pId, fileID |-> fID, fileId |-> fId,
     fileName |-> name]

\* {"projectID": 12, "fileID": 4}
EntryDefaultName == Entry(<<12>>, <<>>, <<4>>, <<>>, <<>>)
\* {"projectId": 3, "fileId": 5, "fileName": "a.jar"}
EntryExplicitName == Entry(<<>>, <<3>>, <<>>, <<5>>, <<NameA>>)
\* {"projectID": 3, "fileID": 5, "fileName": "n.txt"}
EntryTxtName == Entry(<<3>>, <<>>, <<5>>, <<>>, <<NameTxt>>)
\* {"projectID": 0, "fileID": 4}
EntryZeroId == Entry(<<0>>, <<>>, <<4>>, <<>>, <<>>)

\* entries of the synchronisation runs
SyncEntries == {EntryDefaultName, EntryExplicitName, EntryTxtName, EntryZeroId}

\* entries of the repeated runs
RerunEntries == {EntryDefaultName, EntryExplicitName}

\* entries of the mapping-only runs
BuildEntries ==
    { Entry(pID, pId, fID, fId, name) :
        pID \in {<<>>, <<0>>, <<12>>}, pId \in {<<>>, <<3>>},
        fID \in {<<>>, <<4>>}, fId \in {<<>>, <<5>>},
        name \in {<<>>, <<<<>>>>, <<Name12x4>>} }

SeqsUpTo(S, n) == UNION { [1..k -> S] : k \in 0..n }

\* manifest.json holding an object with a "files" list
ObjectWith(files) ==
    [kind |-> "object", hasFiles |-> TRUE, filesIsList |-> TRUE, files |-> files]

\* manifest.json that is not an object with a "files" list:
\*   unreadable file, invalid JSON, the number 7, the array [],
\*   the object {}, the object {"files": null}
BrokenManifestFiles ==
    { [kind |-> k, hasFiles |-> FALSE, filesIsList |-> FALSE, files |-> <<>>] :
        k \in {"unreadable", "invalid_json", "number", "array", "object"} }
    \cup { [kind |-> "object", hasFiles |-> TRUE, filesIsList |-> FALSE,
            files |-> <<>>] }

InitialNames == {NameUpperJar, NameTxt, Name12x4}

InitialDirs == { [n \in S |-> OldContent] : S \in SUBSET InitialNames }

\* dir0, exists0: the directory when the invocation started; dropped: the
\* positions of the entries line 45 skipped; snapshot: the listing of line 52;
\* removeTried, removeFailed: names given to os.remove and those it failed on;
\* reached: key -> what the fetch loop found at its path when it got there
\* (<<>> nothing, <<c>> a file of content c); resolved: key -> response of
\* line 76; dlOk: keys whose download passed raise_for_status; opened: keys
\* whose file line 90 opened; downloaded: keys that reached line 94;
\* failedOpen: key -> invocation and content of a download that failed after
\* line 90 (kept across invocations)
NoHistory ==
    [dir0 |-> <<>>, exists0 |-> FALSE, dropped |-> {}, snapshot |-> {},
     removeTried |-> {}, removeFailed |-> {}, reached |-> <<>>,
     resolved |-> <<>>, dlOk |-> {}, opened |-> {}, downloaded |-> {},
     failedOpen |-> <<>>]

InitWith(mf, exists, d) ==
    /\ pc = "start"
    /\ run = 1
    /\ manifestFile = mf
    /\ manifest = <<>>
    /\ dirExists = exists
    /\ dir = d
    /\ mods_keys = <<>>
    /\ mods_in_manifest = <<>>
    /\ idx = 1
    /\ current_mod_files = {}
    /\ fidx = 1
    /\ response = <<>>
    /\ download_url = <<>>
    /\ cidx = 1
    /\ out = {}
    /\ reqs = <<>>
    /\ h = [NoHistory EXCEPT !.dir0 = d, !.exists0 = exists]

Init ==
    \E mf \in BrokenManifestFiles
              \cup { ObjectWith(fs) : fs \in SeqsUpTo(SyncEntries, MaxEntries) } :
      \/ \E d \in InitialDirs : InitWith(mf, TRUE, d)
      \/ InitWith(mf, FALSE, <<>>)

-----------------------------------------------------------------------------
(* main() *)

Keys == DOMAIN mods_in_manifest

\* lines 14-18: os.makedirs(mods_dir, exist_ok=True)
MakeDirs ==
    /\ pc = "start"
    /\ dirExists' = TRUE
    /\ out' = out \cup {"using"}
    /\ pc' = "load"
    /\ UNCHANGED <<run, manifestFile, manifest, dir, mods_keys, mods_in_manifest,
                   idx, current_mod_files, fidx, response, download_url, cidx,
                   reqs, h>>

\* lines 21-26: open + json.load, any Exception reported, then return
LoadManifest ==
    /\ pc = "load"
    /\ IF manifestFile.kind \in {"unreadable", "invalid_json"}
       THEN /\ out' = out \cup {"error_loading"}
            /\ pc' = "returned"
            /\ UNCHANGED manifest
       ELSE /\ manifest' = manifestFile
            /\ pc' = "check_files"
            /\ UNCHANGED out
    /\ UNCHANGED <<run, manifestFile, dirExists, dir, mods_keys, mods_in_manifest,
                   idx, current_mod_files, fidx, response, download_url, cidx,
                   reqs, h>>

\* lines 29-35: `"files" not in manifest`; on a number the operator raises
\* TypeError, which nothing catches
CheckFiles ==
    /\ pc = "check_files"
    /\ CASE manifest.kind = "number" ->
              /\ pc' = "crashed"
              /\ UNCHANGED <<out, idx>>
         [] manifest.kind = "array" \/ ~manifest.hasFiles ->
              /\ out' = out \cup {"error_no_files"}
              /\ pc' = "returned"
              /\ UNCHANGED idx
         [] OTHER ->
              /\ pc' = "build"
              /\ idx' = 1
              /\ UNCHANGED out
    /\ UNCHANGED <<run, manifestFile, manifest, dirExists, dir, mods_keys,
                   mods_in_manifest, current_mod_files, fidx, response,
                   download_url, cidx, reqs, h>>

\* mods_in_manifest[file_name] = (project_id, file_id): a key already there
\* keeps its place in the order and takes the new value
DictSet(keys, map, k, v) ==
    [keys |-> IF k \in DOMAIN map THEN keys ELSE Append(keys, k),
     map |-> [n \in DOMAIN map \cup {k} |-> IF n = k THEN v ELSE map[n]]]

\* lines 36-49: one iteration of `for mod in manifest["files"]`; iterating
\* None raises TypeError, which nothing catches
BuildIter ==
    /\ pc = "build"
    /\ LET files == manifest.files IN
       CASE ~manifest.filesIsList ->
              /\ pc' = "crashed"
              /\ UNCHANGED <<idx, mods_keys, mods_in_manifest, out, h>>
         [] manifest.filesIsList /\ idx > Len(files) ->
              /\ out' = out \cup {"found"}
              /\ pc' = "list"
              /\ UNCHANGED <<idx, mods_keys, mods_in_manifest, h>>
         [] OTHER ->
              LET mod == files[idx]
                  project_id == ProjectIdOf(mod)
                  file_id == FileIdOf(mod)
                  file_name == FileNameOf(mod)
              IN /\ idx' = idx + 1
                 /\ UNCHANGED pc
                 /\ IF IsSkipped(mod)
                    THEN /\ out' = out \cup {"skipping_entry"}
                         /\ h' = [h EXCEPT !.dropped = @ \cup {idx}]
                         /\ UNCHANGED <<mods_keys, mods_in_manifest>>
                    ELSE LET d == DictSet(mods_keys, mods_in_manifest, file_name,
                                          <<project_id[1], file_id[1]>>)
                         IN /\ mods_keys' = d.keys
                            /\ mods_in_manifest' = d.map
                            /\ UNCHANGED <<out, h>>
    /\ UNCHANGED <<run, manifestFile, manifest, dirExists, dir,
                   current_mod_files, fidx, response, download_url, cidx,
                   reqs>>

\* line 52: os.listdir filtered by the extension
ListDir ==
    /\ pc = "list"
    /\ current_mod_files' = { f \in DOMAIN dir : IsJar(f) }
    /\ h' = [h EXCEPT !.snapshot = current_mod_files']
    /\ pc' = "prune"
    /\ UNCHANGED <<run, manifestFile, manifest, dirExists, dir, mods_keys,
                   mods_in_manifest, idx, fidx, response, download_url, cidx,
                   out, reqs>>

\* the prune loop without its membership test
ShouldRemove_Always(mod_file, keys) == TRUE

\* line 56: `mod_file not in mods_in_manifest`
ShouldRemove(mod_file, keys) == mod_file \notin keys

\* lines 55-62: one iteration of `for mod_file in current_mod_files`, in the
\* arbitrary order of a set; os.remove succeeds or raises
PruneIter ==
    /\ pc = "prune"
    /\ IF current_mod_files = {}
       THEN /\ pc' = "fetch"
            /\ fidx' = 1
            /\ UNCHANGED <<current_mod_files, dir, out, h>>
       ELSE \E mod_file \in current_mod_files :
              /\ current_mod_files' = current_mod_files \ {mod_file}
              /\ UNCHANGED <<pc, fidx>>
              /\ IF ShouldRemove(mod_file, Keys)
                 THEN \/ /\ dir' = [n \in DOMAIN dir \ {mod_file} |-> dir[n]]
                         /\ out' = out \cup {"removing"}
                         /\ h' = [h EXCEPT !.removeTried = @ \cup {mod_file}]
                      \/ /\ out' = out \cup {"removing", "error_removing"}
                         /\ h' = [h EXCEPT !.removeTried = @ \cup {mod_file},
                                           !.removeFailed = @ \cup {mod_file}]
                         /\ UNCHANGED dir
                 ELSE UNCHANGED <<dir, out, h>>
    /\ UNCHANGED <<run, manifestFile, manifest, dirExists, mods_keys,
                   mods_in_manifest, idx, response, download_url, cidx, reqs>>

\* the extension of a function by one pair
Put(f, k, v) == [n \in DOMAIN f \cup {k} |-> IF n = k THEN v ELSE f[n]]

\* the fetch loop without its existence test
Exists_Never(file_name, d) == FALSE

\* an existence test that takes an empty file for a missing one
Exists_NonEmpty(file_name, d) == file_name \in DOMAIN d /\ d[file_name] # <<>>

\* line 67: os.path.exists(file_path)
Exists(file_name, d) == file_name \in DOMAIN d

Found(file_name, d) == IF file_name \in DOMAIN d THEN <<d[file_name]>> ELSE <<>>

\* lines 65-71 and 98: the head of one iteration of the fetch loop
FetchIter ==
    /\ pc = "fetch"
    /\ IF fidx > Len(mods_keys)
       THEN /\ out' = out \cup {"complete"}
            /\ pc' = "done"
            /\ UNCHANGED <<fidx, h>>
       ELSE LET file_name == mods_keys[fidx] IN
            /\ h' = [h EXCEPT !.reached = Put(@, file_name, Found(file_name, dir))]
            /\ IF Exists(file_name, dir)
               THEN /\ out' = out \cup {"already_exists"}
                    /\ fidx' = fidx + 1
                    /\ UNCHANGED pc
               ELSE /\ out' = out \cup {"downloading"}
                    /\ pc' = "resolve"
                    /\ UNCHANGED fidx
    /\ UNCHANGED <<run, manifestFile, manifest, dirExists, dir, mods_keys,
                   mods_in_manifest, idx, current_mod_files, response,
                   download_url, cidx, reqs>>

\* the `continue` of lines 79 and 85 and the end of the body at line 94:
\* report, next entry
NextEntry(tag) ==
    /\ out' = out \cup {tag}
    /\ fidx' = fidx + 1
    /\ pc' = "fetch"
    /\ response' = <<>>
    /\ download_url' = <<>>
    /\ cidx' = 1

\* the fetch loop without its try/except: the exception ends main()
Except_Uncaught ==
    /\ pc' = "crashed"
    /\ UNCHANGED <<out, fidx, response, download_url, cidx>>

\* lines 95-96: any Exception of lines 76-94 is reported and the loop goes on;
\* a file already opened stays as it is
Except == NextEntry("error_downloading")

\* a request that is sent again
Send_Twice(log, req) == Append(Append(log, req), req)

\* requests.get: one request on the wire
Send(log, req) == Append(log, req)

\* the response taken without its status test
StatusOk_Unchecked(status) == TRUE

\* line 77: the status test
StatusOk(status) == status = 200

Request(kind, key, target) ==
    [run |-> run, kind |-> kind, key |-> key, target |-> target]

\* lines 73-76: GET .../addon/{project_id}/file/{file_id}/download-url
Resolve ==
    /\ pc = "resolve"
    /\ LET file_name == mods_keys[fidx]
           ids == mods_in_manifest[file_name]
       IN /\ reqs' = Send(reqs, Request("resolve", file_name, ids))
          /\ \/ /\ Except
                /\ UNCHANGED h
             \/ \E status \in Statuses, text \in Bodies :
                  /\ response' = <<[status |-> status, text |-> text]>>
                  /\ h' = [h EXCEPT !.resolved = Put(@, file_name, response'[1])]
                  /\ pc' = "check"
                  /\ UNCHANGED <<out, fidx, download_url, cidx>>
    /\ UNCHANGED <<run, manifestFile, manifest, dirExists, dir, mods_keys,
                   mods_in_manifest, idx, current_mod_files>>

\* lines 77-85: the status check and the check of the stripped body
CheckResponse ==
    /\ pc = "check"
    /\ CASE ~StatusOk(response[1].status) -> NextEntry("error_status")
         [] StatusOk(response[1].status) /\ ~IsUrl(response[1].text) ->
              NextEntry("error_invalid_url")
         [] OTHER ->
              /\ download_url' = Strip(response[1].text)
              /\ pc' = "download"
              /\ UNCHANGED <<out, fidx, response, cidx>>
    /\ UNCHANGED <<run, manifestFile, manifest, dirExists, dir, mods_keys,
                   mods_in_manifest, idx, current_mod_files, reqs, h>>

\* lines 88-89: the streamed GET and raise_for_status
Download ==
    /\ pc = "download"
    /\ LET file_name == mods_keys[fidx] IN
       /\ reqs' = Send(reqs, Request("download", file_name, download_url))
       /\ \/ /\ Except
             /\ UNCHANGED h
          \/ \E status \in Statuses :
               IF status >= 400
               THEN /\ Except
                    /\ UNCHANGED h
               ELSE /\ pc' = "open"
                    /\ h' = [h EXCEPT !.dlOk = @ \cup {file_name}]
                    /\ UNCHANGED <<out, fidx, response, download_url, cidx>>
    /\ UNCHANGED <<run, manifestFile, manifest, dirExists, dir, mods_keys,
                   mods_in_manifest, idx, current_mod_files>>

\* line 90: open(file_path, "wb") creates the empty file or raises
OpenFile ==
    /\ pc = "open"
    /\ LET file_name == mods_keys[fidx] IN
       \/ /\ Except
          /\ UNCHANGED <<dir, h>>
       \/ /\ dir' = Put(dir, file_name, <<>>)
          /\ h' = [h EXCEPT !.opened = @ \cup {file_name}]
          /\ cidx' = 1
          /\ pc' = "write"
          /\ UNCHANGED <<out, fidx, response, download_url>>
    /\ UNCHANGED <<run, manifestFile, manifest, dirExists, mods_keys,
                   mods_in_manifest, idx, current_mod_files, reqs>>

\* lines 91-94: one iteration of iter_content; the read or the write may raise
WriteChunk ==
    /\ pc = "write"
    /\ LET file_name == mods_keys[fidx] IN
       IF cidx > Len(RemoteChunks)
       THEN /\ NextEntry("downloaded")
            /\ h' = [h EXCEPT !.downloaded = @ \cup {file_name}]
            /\ UNCHANGED dir
       ELSE \/ /\ Except
               /\ h' = [h EXCEPT !.failedOpen =
                          Put(@, file_name, [run |-> run, content |-> dir[file_name]])]
               /\ UNCHANGED dir
            \/ /\ LET chunk == RemoteChunks[cidx] IN
                  dir' = IF chunk # ""
                         THEN [dir EXCEPT ![file_name] = Append(@, chunk)]
                         ELSE dir
               /\ cidx' = cidx + 1
               /\ UNCHANGED <<pc, out, fidx, response, download_url, h>>
    /\ UNCHANGED <<run, manifestFile, manifest, dirExists, mods_keys,
                   mods_in_manifest, idx, current_mod_files, reqs>>

\* the script is run again: same manifest.json, the directory as it was left
Restart ==
    /\ pc = "done"
    /\ run < MaxRuns
    /\ run' = run + 1
    /\ pc' = "start"
    /\ manifest' = <<>>
    /\ mods_keys' = <<>>
    /\ mods_in_manifest' = <<>>
    /\ idx' = 1
    /\ current_mod_files' = {}
    /\ fidx' = 1
    /\ out' = {}
    /\ h' = [NoHistory EXCEPT !.dir0 = dir, !.exists0 = dirExists,
                              !.failedOpen = h.failedOpen]
    /\ UNCHANGED <<manifestFile, dirExists, dir, response, download_url, cidx,
                   reqs>>

Next ==
    \/ MakeDirs
    \/ LoadManifest
    \/ CheckFiles
    \/ BuildIter
    \/ ListDir
    \/ PruneIter
    \/ FetchIter
    \/ Resolve
    \/ CheckResponse
    \/ Download
    \/ OpenFile
    \/ WriteChunk

Spec == Init /\ [][Next]_vars

\* one invocation after another
RerunInit ==
    \E fs \in SeqsUpTo(RerunEntries, MaxEntries), d \in InitialDirs :
      InitWith(ObjectWith(fs), TRUE, d)

RerunNext == Next \/ Restart

RerunSpec == RerunInit /\ [][RerunNext]_vars

\* every statement of the script returns or raises (the requests carry
\* timeouts), so a step that can be taken is taken
FairSpec == Init /\ [][Next]_vars /\ WF_vars(Next)

\* lines 6-49 alone, over every shape of entry
BuildInit ==
    \E mf \in BrokenManifestFiles
              \cup { ObjectWith(fs) : fs \in SeqsUpTo(BuildEntries, MaxBuildEntries) } :
      InitWith(mf, TRUE, <<>>)

BuildNext == MakeDirs \/ LoadManifest \/ CheckFiles \/ BuildIter

BuildSpec == BuildInit /\ [][BuildNext]_vars

-----------------------------------------------------------------------------
(* Vocabulary of the properties *)

\* manifest.json is an object with a "files" list
Loadable == manifestFile.kind = "object" /\ manifestFile.filesIsList

\* the requests this invocation issued for a key
ReqsOf(k, kind) ==
    { i \in DOMAIN reqs :
        reqs[i].run = run /\ reqs[i].key = k /\ reqs[i].kind = kind }

\* keys the fetch loop reached and found no file for
Missing == { k \in DOMAIN h.reached : h.reached[k] = <<>> }

\* the entry carries both identifiers, under either spelling
HasIds(mod) ==
    /\ mod.projectID # <<>> \/ mod.projectId # <<>>
    /\ mod.fileID # <<>> \/ mod.fileId # <<>>

-----------------------------------------------------------------------------
(* C1 *)

\* C1 as stated: at "Mod update process complete" the directory holds exactly
\* the keys of the mapping minus those whose download failed, and no file of
\* the start that is not a key.
C1_Original ==
    pc = "done" =>
      /\ DOMAIN dir = Keys \ (Missing \ h.downloaded)
      /\ \A n \in DOMAIN h.dir0 : n \notin Keys => n \notin DOMAIN dir

\* C1 amended: at "Mod update process complete" the directory holds exactly
\* the files of the start that are keys of the mapping, or do not end in
\* ".jar" (any case), or whose deletion failed, plus the keys whose download
\* got as far as opening the target file.
C1_FinalDirectory ==
    pc = "done" =>
      DOMAIN dir =
        { n \in DOMAIN h.dir0 :
            \/ n \in Keys
            \/ ~EndsWith(Lower(n), JarExt)
            \/ n \in h.removeFailed }
        \cup h.opened

C1_Witness ==
    /\ pc = "done"
    /\ NameUpperJar \in DOMAIN h.dir0 \ DOMAIN dir
    /\ NameTxt \in DOMAIN dir \ Keys
    /\ Name12x4 \in DOMAIN h.dir0 \cap Keys
    /\ h.downloaded # {}

-----------------------------------------------------------------------------
(* C2 *)

\* C2: once the fetch loop is past a key it found no file for, this
\* invocation has issued exactly one request to the download-url endpoint on
\* behalf of that key, for the key's (project id, file id), and at most one
\* download request, after the first; whatever happened to earlier entries.
C2_AttemptedOnce ==
    \A i \in 1..Len(mods_keys) :
      LET k == mods_keys[i] IN
      (pc \in {"fetch", "resolve", "check", "download", "open", "write", "done"}
         /\ i < fidx /\ k \in Missing) =>
        /\ Cardinality(ReqsOf(k, "resolve")) = 1
        /\ \A r \in ReqsOf(k, "resolve") : reqs[r].target = mods_in_manifest[k]
        /\ Cardinality(ReqsOf(k, "download")) <= 1
        /\ \A r \in ReqsOf(k, "resolve"), d \in ReqsOf(k, "download") : r < d

C2_Witness ==
    /\ pc = "done"
    /\ Len(mods_keys) = 2
    /\ {mods_keys[1], mods_keys[2]} \subseteq Missing
    /\ mods_keys[1] \notin h.downloaded
    /\ mods_keys[2] \in h.downloaded

-----------------------------------------------------------------------------
(* C3 *)

\* C3: a key whose file was there when the fetch loop reached it gets no
\* request in this invocation and keeps the content it had.
C3_PresentUntouched ==
    \A k \in DOMAIN h.reached :
      h.reached[k] # <<>> =>
        /\ ReqsOf(k, "resolve") \cup ReqsOf(k, "download") = {}
        /\ k \in DOMAIN dir
        /\ dir[k] = h.reached[k][1]

C3_Witness ==
    /\ pc = "done"
    /\ \E k \in DOMAIN h.reached : h.reached[k] = <<OldContent>>
    /\ h.downloaded # {}

-----------------------------------------------------------------------------
(* C4 *)

\* C4 as stated: with a manifest that cannot be loaded or has no "files"
\* list, main() ends by an early return with an error reported, and
\* nothing has changed: same files, same existence of the directory, no request.
C4_Original ==
    (~Loadable /\ pc \in {"returned", "crashed", "done"}) =>
      /\ pc = "returned"
      /\ out \cap {"error_loading", "error_no_files"} # {}
      /\ dir = h.dir0
      /\ dirExists = h.exists0
      /\ reqs = <<>>

-----------------------------------------------------------------------------
(* C5 *)

\* C5 as stated: when the entries carrying both identifiers have pairwise
\* distinct resolved names, the mapping has as many keys as there are such
\* entries, and only entries lacking an identifier are dropped.
C5_Original ==
    (pc = "list") =>
      LET files == manifest.files
          good == { i \in DOMAIN files : HasIds(files[i]) }
      IN /\ (\A i, j \in good : i # j => FileNameOf(files[i]) # FileNameOf(files[j]))
              => Cardinality(Keys) = Cardinality(good)
         /\ \A i \in h.dropped : ~HasIds(files[i])

-----------------------------------------------------------------------------
(* C6 *)

\* the name C6 gives an entry: the explicit file name (a non-empty string),
\* else "<p>-<f>.jar"
ClaimedName(mod, p, f) ==
    IF mod.fileName # <<>> /\ mod.fileName[1] # <<>>
    THEN mod.fileName[1]
    ELSE IntToStr(p) \o <<"-">> \o IntToStr(f) \o JarExt

\* C6 as stated: every entry with a project id p and a file id f, under
\* either spelling, has its name as a key of the mapping; the key maps to
\* (p, f) unless a later entry of the same name replaced it.
C6_Original ==
    (pc = "list") =>
      LET files == manifest.files IN
      \A i \in DOMAIN files :
        HasIds(files[i]) =>
          \E p \in {v[1] : v \in {files[i].projectID, files[i].projectId} \ {<<>>}},
             f \in {v[1] : v \in {files[i].fileID, files[i].fileId} \ {<<>>}} :
            LET name == ClaimedName(files[i], p, f) IN
            /\ name \in Keys
            /\ (\A j \in DOMAIN files : j > i => FileNameOf(files[j]) # name)
                 => mods_in_manifest[name] = <<p, f>>

-----------------------------------------------------------------------------
(* C7 *)

\* C7: a failure on one file never ends the invocation: at the end every
\* extraneous file of the listing was given to os.remove and every key was
\* reached by the fetch loop, and with a loadable manifest main() always
\* gets to "Mod update process complete".
C7_NeverAborts ==
    /\ [](pc = "done" =>
            /\ h.removeTried = { n \in h.snapshot : n \notin Keys }
            /\ DOMAIN h.reached = Keys)
    /\ (Loadable ~> pc = "done")

C7_Witness ==
    /\ pc = "done"
    /\ Cardinality(h.removeFailed) = 2
    /\ Len(mods_keys) = 2
    /\ mods_keys[1] \in Missing \ h.downloaded
    /\ mods_keys[2] \in h.downloaded

-----------------------------------------------------------------------------
(* C8 *)

\* C8: a file disappears from the directory only if it was in the listing,
\* its name ends in ".jar" (any case) and is not a key of the mapping.
C8_PruneOnly ==
    [][\A n \in DOMAIN dir :
         n \notin DOMAIN dir' =>
           /\ n \in h.snapshot
           /\ EndsWith(Lower(n), JarExt)
           /\ n \notin Keys]_vars

C8_Witness ==
    /\ pc = "done"
    /\ NameUpperJar \in DOMAIN h.dir0 \ DOMAIN dir
    /\ NameTxt \in DOMAIN h.dir0
    /\ Name12x4 \in DOMAIN h.dir0 \cap Keys

-----------------------------------------------------------------------------
(* C9 *)

\* C9: for a missing file, a resolution answer with a status other than 200
\* or a stripped body not starting with "http" is followed by no download
\* request and no file; a file is opened only after a 200 answer with an
\* "http" body and a download response that passed its status check.
C9_CheckedBeforeWrite ==
    /\ \A k \in DOMAIN h.resolved :
         (h.resolved[k].status # 200
            \/ ~StartsWith(Strip(h.resolved[k].text), HttpPrefix)) =>
           /\ ReqsOf(k, "download") = {}
           /\ k \notin DOMAIN dir
    /\ \A k \in h.opened :
         /\ k \in DOMAIN h.resolved
         /\ h.resolved[k].status = 200
         /\ StartsWith(Strip(h.resolved[k].text), HttpPrefix)
         /\ k \in h.dlOk

C9_Witness ==
    /\ pc = "done"
    /\ \E k \in DOMAIN h.resolved :
         /\ h.resolved[k].status # 200 \/ h.resolved[k].text = BodyBad
         /\ k \notin DOMAIN dir
    /\ h.opened # {}

-----------------------------------------------------------------------------
(* C10 *)

\* C10: a file left behind by a download that failed after the file was
\* opened stays as it was left, in that invocation and in every later one
\* with the same manifest, and no later invocation issues a request for it.
C10_NeverRepaired ==
    \A k \in DOMAIN h.failedOpen :
      /\ k \in DOMAIN dir
      /\ dir[k] = h.failedOpen[k].content
      /\ \A i \in DOMAIN reqs :
           reqs[i].key = k => reqs[i].run <= h.failedOpen[k].run

C10_Witness ==
    /\ pc = "done"
    /\ run = 2
    /\ \E k \in DOMAIN h.failedOpen :
         /\ h.failedOpen[k].run = 1
         /\ h.failedOpen[k].content = <<"x">>
         /\ k \in DOMAIN h.reached
         /\ h.reached[k] # <<>>

====
